---- MODULE Spec2Model ----
(***************************************************************************)
(* A model of the economy / blackjack bot of src/main.py.                  *)
(*                                                                         *)
(* The shared state is the MongoDB "users" collection (store) and the wall *)
(* clock (now).  Every slash-command invocation is a task (a coroutine on  *)
(* the asyncio loop).  A task runs atomically from one await that touches  *)
(* the collection or the chat to the next, so every action below is the    *)
(* synchronous code that precedes one database call or one chat event,     *)
(* together with that call.                                                *)
(***************************************************************************)
EXTENDS Integers, Sequences, FiniteSets, TLC

VARIABLES
    now,    \* the last value time.time() returned, in whole seconds
    store,  \* db["users"]: user id -> stored document
    task,   \* task id -> the coroutine's position and local variables
    hist    \* task id -> what the invocation observed (history, not program state)

vars == <<now, store, task, hist>>

(***************************************************************************)
(* Bounds of the model.                                                    *)
(***************************************************************************)
TopLen == 5         \* cards on top of the deck whose order a GameSpec shuffle draws freely
MaxHandLen == 4     \* longest hand HandSpec hands to calculate_hand_value

\* the command invocations of one run: they overlap in every possible way
Tasks == {1, 2}
\* the user identities
Users == {1, 2}

(***************************************************************************)
(* Configuration (main.py, lines 24-43).                                   *)
(***************************************************************************)
CAREER_ORDER == <<"homeless", "maid", "minor", "farmer", "alchemist", "architect", "doctor">>

\* CAREERS[c]["multiplier"], in tenths
MultiplierTenths ==
    [c \in {CAREER_ORDER[i] : i \in 1..Len(CAREER_ORDER)} |->
        CASE c = "homeless"  -> 5
          [] c = "maid"      -> 7
          [] c = "minor"     -> 10
          [] c = "farmer"    -> 13
          [] c = "alchemist" -> 15
          [] c = "architect" -> 18
          [] c = "doctor"    -> 20]

BASE_PAY == 50
WORK_COOLDOWN == 3600
ROLL_COOLDOWN == 3600

\* CAREER_ORDER.index(name)
CareerIndex(name) == CHOOSE i \in 1..Len(CAREER_ORDER) : CAREER_ORDER[i] = name

(***************************************************************************)
(* Cards (main.py, lines 295-322).                                         *)
(***************************************************************************)
SUITS == <<"S", "H", "D", "C">>
RANKS == <<"2", "3", "4", "5", "6", "7", "8", "9", "10", "J", "Q", "K", "A">>

\* [(rank, suit) for suit in SUITS for rank in RANKS]
create_deck ==
    [i \in 1..(Len(SUITS) * Len(RANKS)) |->
        <<RANKS[((i - 1) % Len(RANKS)) + 1], SUITS[((i - 1) \div Len(RANKS)) + 1]>>]

\* int(rank) for the number ranks
IntOfRank(rank) ==
    CASE rank = "2" -> 2 [] rank = "3" -> 3 [] rank = "4" -> 4 [] rank = "5" -> 5
      [] rank = "6" -> 6 [] rank = "7" -> 7 [] rank = "8" -> 8 [] rank = "9" -> 9
      [] rank = "10" -> 10

get_card_value(card) ==
    IF card[1] \in {"J", "Q", "K"} THEN 10
    ELSE IF card[1] = "A" THEN 11
    ELSE IntOfRank(card[1])

\* the for loop of calculate_hand_value: <<value, num_aces>> after the first n cards
RECURSIVE SumHand(_, _)
SumHand(hand, n) ==
    IF n = 0 THEN <<0, 0>>
    ELSE LET prev == SumHand(hand, n - 1)
             card_value == get_card_value(hand[n])
         IN  <<prev[1] + card_value,
               IF card_value = 11 THEN prev[2] + 1 ELSE prev[2]>>

\* mutant of DemoteAces: an if in place of the while
DemoteOnce(value, num_aces) ==
    IF value > 21 /\ num_aces > 0 THEN value - 10 ELSE value

\* the while loop of calculate_hand_value
RECURSIVE DemoteAces(_, _)
DemoteAces(value, num_aces) ==
    IF value > 21 /\ num_aces > 0 THEN DemoteAces(value - 10, num_aces - 1)
    ELSE value

calculate_hand_value(hand) ==
    LET s == SumHand(hand, Len(hand)) IN DemoteAces(s[1], s[2])

(***************************************************************************)
(* The users collection (main.py, lines 81-134).  A stored document is the *)
(* set of fields it holds (present) and their values; a field that is not  *)
(* present carries a placeholder that is never read.  "_id" is present     *)
(* exactly when the document exists.                                       *)
(***************************************************************************)
Fields == {"money", "career", "last_work_time", "last_career_roll_time"}

\* new_user_data of get_user_data (lines 94-100)
DefaultData ==
    [money |-> 0, career |-> "homeless", last_work_time |-> 0, last_career_roll_time |-> 0]

Doc(present, data) ==
    [present |-> present,
     money |-> data.money,
     career |-> data.career,
     last_work_time |-> data.last_work_time,
     last_career_roll_time |-> data.last_career_roll_time]

NoDoc == Doc({}, DefaultData)

FullDoc(data) == Doc(Fields \cup {"_id"}, data)

Exists(doc) == "_id" \in doc.present

\* lines 106-118: the user_data dict after the missing fields were filled in
Filled(doc) ==
    [money |-> IF "money" \in doc.present THEN doc.money ELSE 0,
     career |-> IF "career" \in doc.present THEN doc.career ELSE "homeless",
     last_work_time |->
        IF "last_work_time" \in doc.present THEN doc.last_work_time ELSE 0,
     last_career_roll_time |->
        IF "last_career_roll_time" \in doc.present THEN doc.last_career_roll_time ELSE 0]

\* update_one({"_id": id}, {"$set": {"money": m}}): no document, no change
SetMoney(doc, m) ==
    IF Exists(doc)
    THEN [doc EXCEPT !.present = @ \cup {"money"}, !.money = m]
    ELSE doc

\* $set of money and last_work_time (line 214)
SetWork(doc, m, t) ==
    IF Exists(doc)
    THEN [doc EXCEPT !.present = @ \cup {"money", "last_work_time"},
                     !.money = m, !.last_work_time = t]
    ELSE doc

\* mutant of SetRoll: the whole loaded record written back, not the two fields
SetRollWholeRecord(doc, c, t) ==
    IF Exists(doc)
    THEN [doc EXCEPT !.present = @ \cup {"career", "last_career_roll_time"},
                     !.career = c, !.last_career_roll_time = t,
                     !.money = 0, !.last_work_time = 0]
    ELSE doc

\* $set of career and last_career_roll_time (line 292)
SetRoll(doc, c, t) ==
    IF Exists(doc)
    THEN [doc EXCEPT !.present = @ \cup {"career", "last_career_roll_time"},
                     !.career = c, !.last_career_roll_time = t]
    ELSE doc

\* $set of the whole user_data dict (line 121)
SetAll(doc, data) == IF Exists(doc) THEN FullDoc(data) ELSE doc

(***************************************************************************)
(* Tasks.                                                                  *)
(***************************************************************************)
IdleTask ==
    [pc |-> "idle", cmd |-> "none", user |-> 1, user_data |-> DefaultData,
     bet |-> 0, deck |-> <<>>, player_hand |-> <<>>, dealer_hand |-> <<>>,
     player_value |-> 0, dealer_value |-> 0]

NoHist ==
    [result |-> "none",     \* the outcome the invocation reported
     at |-> 0,              \* current_time of the handler
     remaining |-> 0,       \* remaining_time reported by a cooldown refusal
     earned |-> 0,          \* earnings of a work
     pre |-> 0,             \* stored money when the invocation read the document
     post |-> 0,            \* stored money just after the debit of Create
     settled |-> 0,         \* stored money just after settlement
     credited |-> 0,        \* what settlement added to user_data["money"]
     awaited |-> FALSE,     \* the session was in AwaitingPlayerAction
     inputs |-> 0,          \* "/hit" and "/hold" messages the session received
     others |-> 0,          \* writes of other tasks to this user's document meanwhile
     openAtCall |-> {},     \* the user's sessions that were open when the command came
     worked |-> 0,          \* earnings of works called and paid while the session was open
     late |-> FALSE,        \* a "/hit" or "/hold" came after the session had ended
     backfilled |-> FALSE]  \* the invocation's get wrote the backfill of missing fields

\* the task is between its find_one and its end
Active(s) == task[s].pc \notin {"idle", "done", "failed"}

\* the session is between the debit of Create and settlement
SessionOpen(s) ==
    task[s].cmd = "blackjack" /\ task[s].pc \in {"deal", "await", "dealer"}

\* hist after task t took a step: own is t's new entry, wrote says whether the
\* step wrote the document of user u, earned what a successful work paid
HistAfter(t, own, u, wrote, earned) ==
    [s \in Tasks |->
        IF s = t THEN own
        ELSE IF wrote /\ Active(s) /\ task[s].user = u
             THEN [hist[s] EXCEPT
                     !.others = @ + 1,
                     !.worked = IF SessionOpen(s) /\ s \in own.openAtCall
                                THEN @ + earned ELSE @]
             ELSE hist[s]]

(***************************************************************************)
(* get_user_data (lines 81-122).                                           *)
(***************************************************************************)
\* where a handler continues once get_user_data has returned
AfterGet(cmd) == IF cmd = "view" THEN "done" ELSE "loaded"

\* line 90: find_one, and the synchronous code up to the next database call
Call(t, cmd, u, bet) ==
    /\ task[t].pc = "idle"
    /\ LET found == store[u] IN
       task' = [task EXCEPT ![t] =
                  [IdleTask EXCEPT
                     !.cmd = cmd, !.user = u, !.bet = bet,
                     !.user_data = IF Exists(found) THEN Filled(found) ELSE DefaultData,
                     !.pc = IF ~Exists(found) THEN "insert"
                            ELSE IF Fields \subseteq found.present THEN AfterGet(cmd)
                            ELSE "backfill"]]
    /\ hist' = [hist EXCEPT ![t] =
                  [NoHist EXCEPT
                     !.pre = task'[t].user_data.money,
                     !.openAtCall = {s \in Tasks : SessionOpen(s) /\ task[s].user = u},
                     !.result = IF task'[t].pc = "done" THEN "Viewed" ELSE "none"]]
    /\ UNCHANGED <<now, store>>

\* line 101: insert_one raises DuplicateKeyError when the _id is taken
Insert(t) ==
    /\ task[t].pc = "insert"
    /\ LET u == task[t].user IN
       IF Exists(store[u])
       THEN /\ task' = [task EXCEPT ![t].pc = "failed"]
            /\ hist' = [hist EXCEPT ![t].result = "DuplicateKeyError"]
            /\ UNCHANGED store
       ELSE /\ store' = [store EXCEPT ![u] = FullDoc(task[t].user_data)]
            /\ task' = [task EXCEPT ![t].pc = AfterGet(task[t].cmd)]
            /\ hist' = HistAfter(t,
                         [hist[t] EXCEPT !.result =
                             IF task[t].cmd = "view" THEN "Viewed" ELSE @],
                         u, TRUE, 0)
    /\ UNCHANGED now

\* line 121: the backfill of missing fields
Backfill(t) ==
    /\ task[t].pc = "backfill"
    /\ LET u == task[t].user IN
       /\ store' = [store EXCEPT ![u] = SetAll(@, task[t].user_data)]
       /\ task' = [task EXCEPT ![t].pc = AfterGet(task[t].cmd)]
       /\ hist' = HistAfter(t,
                    [hist[t] EXCEPT !.backfilled = TRUE,
                                    !.result =
                                       IF task[t].cmd = "view" THEN "Viewed" ELSE @],
                    u, TRUE, 0)
    /\ UNCHANGED now

(***************************************************************************)
(* work (lines 185-219).                                                   *)
(***************************************************************************)
\* random.uniform(0.8, 1.2), in thousandths
UniformSamples == {800, 1200}

\* mutant of OnWorkCooldown: the comparison turned round
OnWorkCooldownInverted(time_since_last_work) == time_since_last_work > WORK_COOLDOWN

\* line 194
OnWorkCooldown(time_since_last_work) == time_since_last_work < WORK_COOLDOWN

\* line 209: int(base_pay * multiplier * u)
Earnings(career_name, u) == (BASE_PAY * MultiplierTenths[career_name] * u) \div 10000

\* current_time: time.time() (line 191) has advanced by elapsed since it was last read
WorkAct(t, elapsed, u1000) ==
    /\ task[t].pc = "loaded"
    /\ task[t].cmd = "work"
    /\ now' = now + elapsed
    /\ LET u == task[t].user
           user_data == task[t].user_data
           current_time == now'
           time_since_last_work == current_time - user_data.last_work_time
           earnings == Earnings(user_data.career, u1000)
       IN
       IF OnWorkCooldown(time_since_last_work)
       THEN /\ task' = [task EXCEPT ![t].pc = "done"]
            /\ hist' = [hist EXCEPT ![t].result = "OnCooldown", ![t].at = current_time,
                                    ![t].remaining = WORK_COOLDOWN - time_since_last_work]
            /\ UNCHANGED store
       ELSE /\ task' = [task EXCEPT ![t].pc = "done",
                                    ![t].user_data.money = @ + earnings,
                                    ![t].user_data.last_work_time = current_time]
            /\ store' = [store EXCEPT ![u] =
                           SetWork(@, user_data.money + earnings, current_time)]
            /\ hist' = HistAfter(t,
                         [hist[t] EXCEPT !.result = "Worked", !.at = current_time,
                                         !.earned = earnings],
                         u, TRUE, earnings)

(***************************************************************************)
(* roll (lines 246-292).                                                   *)
(***************************************************************************)
\* mutant of IsTerminal: the last index taken to be len(CAREER_ORDER)
IsTerminalOffByOne(current_career_index) == current_career_index = Len(CAREER_ORDER) + 1

\* line 255
IsTerminal(current_career_index) == current_career_index = Len(CAREER_ORDER)

\* line 264
OnRollCooldown(time_since_last_roll) == time_since_last_roll < ROLL_COOLDOWN

\* promoted: random.random() < CAREER_ADVANCEMENT_CHANCE
RollAct(t, elapsed, promoted) ==
    /\ task[t].pc = "loaded"
    /\ task[t].cmd = "roll"
    /\ now' = now + elapsed
    /\ LET u == task[t].user
           user_data == task[t].user_data
           current_career_index == CareerIndex(user_data.career)
           current_time == now'
           time_since_last_roll == current_time - user_data.last_career_roll_time
       IN
       IF IsTerminal(current_career_index)
       THEN /\ task' = [task EXCEPT ![t].pc = "done"]
            /\ hist' = [hist EXCEPT ![t].result = "AlreadyMaxed", ![t].at = current_time]
            /\ UNCHANGED store
       ELSE IF OnRollCooldown(time_since_last_roll)
       THEN /\ task' = [task EXCEPT ![t].pc = "done"]
            /\ hist' = [hist EXCEPT ![t].result = "OnCooldown", ![t].at = current_time,
                                    ![t].remaining = ROLL_COOLDOWN - time_since_last_roll]
            /\ UNCHANGED store
       ELSE IF promoted /\ current_career_index + 1 > Len(CAREER_ORDER)
       THEN \* line 278: IndexError, the handler ends without its update
            /\ task' = [task EXCEPT ![t].pc = "failed",
                                    ![t].user_data.last_career_roll_time = current_time]
            /\ hist' = [hist EXCEPT ![t].result = "IndexError", ![t].at = current_time]
            /\ UNCHANGED store
       ELSE LET new_career_name ==
                    IF promoted THEN CAREER_ORDER[current_career_index + 1]
                    ELSE user_data.career
            IN
            /\ task' = [task EXCEPT ![t].pc = "done",
                                    ![t].user_data.career = new_career_name,
                                    ![t].user_data.last_career_roll_time = current_time]
            /\ store' = [store EXCEPT ![u] = SetRoll(@, new_career_name, current_time)]
            /\ hist' = HistAfter(t,
                         [hist[t] EXCEPT !.at = current_time,
                             !.result = IF promoted THEN "Promoted" ELSE "Failed"],
                         u, TRUE, 0)

(***************************************************************************)
(* blackjack (lines 327-468).                                              *)
(***************************************************************************)
Range(seq) == {seq[i] : i \in 1..Len(seq)}

Reverse(seq) == [i \in 1..Len(seq) |-> seq[Len(seq) + 1 - i]]

\* a result of random.shuffle(deck): the permutation of create_deck whose pops
\* yield top[1], top[2], ... and then the other cards from the end of create_deck
ShuffledDeck(top) ==
    SelectSeq(create_deck, LAMBDA c : c \notin Range(top)) \o Reverse(top)

\* mutant of Pop: the card is read but stays in the deck
PopKeepsCard(deck) == deck

\* deck.pop()
Top(deck) == deck[Len(deck)]
Pop(deck) == SubSeq(deck, 1, Len(deck) - 1)

\* mutant of InvalidBet: a bet of 0 let through
InvalidBetStrict(bet) == bet < 0

\* line 334
InvalidBet(bet) == bet <= 0

\* mutant of InsufficientFunds: the operands exchanged
InsufficientFundsSwapped(money, bet) == bet < money

\* line 338
InsufficientFunds(money, bet) == money < bet

\* mutant of NaturalWin: the half taken in integers before the product
NaturalWinHalfFirst(bet) == (bet \div 2) * 3

\* line 374: int(bet * 1.5)
NaturalWin(bet) == (3 * bet) \div 2

\* mutant of DealerMustDraw: the dealer hits on 17
DealerMustDrawOn17(dealer_value) == dealer_value <= 17

\* line 435
DealerMustDraw(dealer_value) == dealer_value < 17

\* mutant of Payout: a win against the dealer returns the stake without winnings
PayoutWinPaysBet(player_value, dealer_value, bet) ==
    IF dealer_value > 21 THEN bet * 2
    ELSE IF dealer_value < player_value THEN bet
    ELSE IF dealer_value > player_value THEN 0
    ELSE bet

\* mutant of Payout: the stake returned when the dealer wins
PayoutRefundsLoss(player_value, dealer_value, bet) ==
    IF dealer_value > 21 THEN bet * 2
    ELSE IF dealer_value < player_value THEN bet * 2
    ELSE bet

\* lines 442-466: what settlement adds to user_data["money"]
Payout(player_value, dealer_value, bet) ==
    IF dealer_value > 21 THEN bet * 2
    ELSE IF dealer_value < player_value THEN bet * 2
    ELSE IF dealer_value > player_value THEN 0
    ELSE bet

Outcome(player_value, dealer_value) ==
    IF dealer_value > 21 THEN "DealerBust"
    ELSE IF dealer_value < player_value THEN "PlayerWin"
    ELSE IF dealer_value > player_value THEN "DealerWin"
    ELSE "Push"

\* lines 334-345: the two refusals, else the debit
BJCreate(t) ==
    /\ task[t].pc = "loaded"
    /\ task[t].cmd = "blackjack"
    /\ LET u == task[t].user
           bet == task[t].bet
           money == task[t].user_data.money
       IN
       IF InvalidBet(bet)
       THEN /\ task' = [task EXCEPT ![t].pc = "done"]
            /\ hist' = [hist EXCEPT ![t].result = "InvalidBet"]
            /\ UNCHANGED store
       ELSE IF InsufficientFunds(money, bet)
       THEN /\ task' = [task EXCEPT ![t].pc = "done"]
            /\ hist' = [hist EXCEPT ![t].result = "InsufficientFunds"]
            /\ UNCHANGED store
       ELSE /\ task' = [task EXCEPT ![t].pc = "deal",
                                    ![t].user_data.money = money - bet]
            /\ store' = [store EXCEPT ![u] = SetMoney(@, money - bet)]
            /\ hist' = HistAfter(t,
                         [hist[t] EXCEPT !.post = store'[u].money],
                         u, TRUE, 0)
    /\ UNCHANGED now

\* lines 347-391: shuffle, deal, and the immediate resolution of a natural
BJDeal(t, shuffled) ==
    /\ task[t].pc = "deal"
    /\ LET u == task[t].user
           bet == task[t].bet
           money == task[t].user_data.money
           \* lines 353-356: four pops, player first
           player_hand == <<Top(shuffled), Top(Pop(Pop(shuffled)))>>
           dealer_hand == <<Top(Pop(shuffled)), Top(Pop(Pop(Pop(shuffled))))>>
           deck == Pop(Pop(Pop(Pop(shuffled))))
           player_value == calculate_hand_value(player_hand)
           dealer_value == calculate_hand_value(dealer_hand)
           dealt == [task[t] EXCEPT !.deck = deck, !.player_hand = player_hand,
                                    !.dealer_hand = dealer_hand,
                                    !.player_value = player_value]
       IN
       IF player_value = 21
       THEN LET credit == IF dealer_value = 21 THEN bet ELSE bet + NaturalWin(bet) IN
            /\ task' = [task EXCEPT ![t] =
                          [dealt EXCEPT !.pc = "done", !.dealer_value = dealer_value,
                                        !.user_data.money = money + credit]]
            /\ store' = [store EXCEPT ![u] = SetMoney(@, money + credit)]
            /\ hist' = HistAfter(t,
                         [hist[t] EXCEPT
                            !.result = IF dealer_value = 21 THEN "NaturalPush"
                                       ELSE "NaturalBlackjack",
                            !.credited = credit,
                            !.settled = store'[u].money],
                         u, TRUE, 0)
       ELSE /\ task' = [task EXCEPT ![t] = [dealt EXCEPT !.pc = "await"]]
            /\ hist' = [hist EXCEPT ![t].awaited = TRUE]
            /\ UNCHANGED store
    /\ UNCHANGED now

\* mutant of AfterInput: a hit to exactly 21 goes on waiting for the player
AfterInputNoAutoStand(tk, content) ==
    IF content = "/hit"
    THEN LET player_hand == Append(tk.player_hand, Top(tk.deck))
             player_value == calculate_hand_value(player_hand)
             hit == [tk EXCEPT !.deck = Pop(tk.deck), !.player_hand = player_hand,
                               !.player_value = player_value]
         IN  IF player_value > 21 THEN [hit EXCEPT !.pc = "done"] ELSE hit
    ELSE [tk EXCEPT !.pc = "dealer",
                    !.dealer_value = calculate_hand_value(tk.dealer_hand)]

\* lines 416-432: one session's handling of a message that passed check(m)
AfterInput(tk, content) ==
    IF content = "/hit"
    THEN LET player_hand == Append(tk.player_hand, Top(tk.deck))
             player_value == calculate_hand_value(player_hand)
             hit == [tk EXCEPT !.deck = Pop(tk.deck), !.player_hand = player_hand,
                               !.player_value = player_value]
         IN  IF player_value > 21 THEN [hit EXCEPT !.pc = "done"]
             ELSE IF player_value = 21
             THEN [hit EXCEPT !.pc = "dealer",
                              !.dealer_value = calculate_hand_value(tk.dealer_hand)]
             ELSE hit
    ELSE [tk EXCEPT !.pc = "dealer",
                    !.dealer_value = calculate_hand_value(tk.dealer_hand)]

\* the user posts "/hit" or "/hold": bot.wait_for (line 406) hands the message to
\* every session of that user that is waiting
Post(u, content) ==
    /\ \E s \in Tasks : task[s].user = u /\ task[s].pc = "await"
    /\ task' = [s \in Tasks |->
                  IF task[s].pc = "await" /\ task[s].user = u
                  THEN AfterInput(task[s], content)
                  ELSE task[s]]
    /\ hist' = [s \in Tasks |->
                  IF task[s].pc = "await" /\ task[s].user = u
                  THEN IF task'[s].pc = "done"
                       THEN [hist[s] EXCEPT !.inputs = @ + 1, !.result = "Bust",
                                            !.settled = store[u].money]
                       ELSE [hist[s] EXCEPT !.inputs = @ + 1]
                  ELSE hist[s]]
    /\ UNCHANGED <<now, store>>

\* the session of task s was dealt and its coroutine has returned
Returned(s) ==
    task[s].cmd = "blackjack" /\ task[s].pc = "done" /\ task[s].player_hand # <<>>

\* mutant of LatePost: a session that has returned still takes the message
LatePostAccepted(u, content) ==
    /\ \A s \in Tasks : ~(task[s].user = u /\ task[s].pc = "await")
    /\ \E s \in Tasks : task[s].user = u /\ Returned(s)
    /\ task' = [s \in Tasks |->
                  IF task[s].user = u /\ Returned(s)
                  THEN [AfterInput(task[s], content) EXCEPT !.pc = "done"]
                  ELSE task[s]]
    /\ hist' = [s \in Tasks |->
                  IF task[s].user = u /\ Returned(s)
                  THEN [hist[s] EXCEPT !.late = TRUE]
                  ELSE hist[s]]
    /\ UNCHANGED <<now, store>>

\* the user posts "/hit" or "/hold" when none of their sessions is waiting: a
\* coroutine that has returned (lines 372, 383, 414, 424, 468) has no wait_for
\* left, no check(m) sees the message, and nothing happens
LatePost(u, content) ==
    /\ \A s \in Tasks : ~(task[s].user = u /\ task[s].pc = "await")
    /\ \E s \in Tasks : task[s].user = u /\ Returned(s)
    /\ hist' = [s \in Tasks |->
                  IF task[s].user = u /\ Returned(s)
                  THEN [hist[s] EXCEPT !.late = TRUE]
                  ELSE hist[s]]
    /\ UNCHANGED <<now, store, task>>

\* mutant of Timeout: the player stands, as the message says, and the dealer plays
TimeoutStands(t) ==
    /\ task[t].pc = "await"
    /\ task' = [task EXCEPT ![t].pc = "dealer",
                            ![t].dealer_value = calculate_hand_value(task[t].dealer_hand)]
    /\ UNCHANGED <<now, store, hist>>

\* mutant of Timeout: the wait is armed again and the session goes on waiting
TimeoutRearms(t) ==
    /\ task[t].pc = "await"
    /\ UNCHANGED <<now, store, task, hist>>

\* lines 406, 412-414: wait_for raises asyncio.TimeoutError, 30 seconds having
\* passed without a message that check(m) accepts
Timeout(t) ==
    /\ task[t].pc = "await"
    /\ task' = [task EXCEPT ![t].pc = "done"]
    /\ hist' = [hist EXCEPT ![t].result = "TimedOut",
                            ![t].settled = store[task[t].user].money]
    /\ UNCHANGED <<now, store>>

\* lines 435-440: one iteration of the dealer's loop
DealerDraw(t) ==
    /\ task[t].pc = "dealer"
    /\ DealerMustDraw(task[t].dealer_value)
    /\ LET dealer_hand == Append(task[t].dealer_hand, Top(task[t].deck)) IN
       task' = [task EXCEPT ![t].deck = Pop(@), ![t].dealer_hand = dealer_hand,
                            ![t].dealer_value = calculate_hand_value(dealer_hand)]
    /\ UNCHANGED <<now, store, hist>>

\* lines 442-468: the comparison and the update that persists user_data["money"]
Settle(t) ==
    /\ task[t].pc = "dealer"
    /\ ~DealerMustDraw(task[t].dealer_value)
    /\ LET u == task[t].user
           credit == Payout(task[t].player_value, task[t].dealer_value, task[t].bet)
           money == task[t].user_data.money + credit
       IN
       /\ task' = [task EXCEPT ![t].pc = "done", ![t].user_data.money = money]
       /\ store' = [store EXCEPT ![u] = SetMoney(@, money)]
       /\ hist' = HistAfter(t,
                    [hist[t] EXCEPT
                       !.result = Outcome(task[t].player_value, task[t].dealer_value),
                       !.credited = credit,
                       !.settled = store'[u].money],
                    u, TRUE, 0)
    /\ UNCHANGED now

(***************************************************************************)
(* The environment: the clock, the commands users send, the shuffles.      *)
(***************************************************************************)
StartTime == 2 * WORK_COOLDOWN
LongAgo == StartTime - 2 * WORK_COOLDOWN + 1
JustNow == StartTime - 1

\* how far time.time() has advanced between two readings
Elapses == {0, 1, WORK_COOLDOWN - 1, WORK_COOLDOWN}

Commands == {"work", "roll", "view", "blackjack"}

\* the bet argument of /blackjack
Bets == {-5, 0, 50}

\* documents earlier runs of the bot left in the collection
InitDocs ==
    { NoDoc,
      FullDoc(DefaultData),
      FullDoc([money |-> 25, career |-> "homeless",
               last_work_time |-> JustNow, last_career_roll_time |-> LongAgo]),
      FullDoc([money |-> 120, career |-> "architect",
               last_work_time |-> LongAgo, last_career_roll_time |-> LongAgo]),
      FullDoc([money |-> 60, career |-> "doctor",
               last_work_time |-> LongAgo, last_career_roll_time |-> JustNow]),
      \* written by a version of the bot that had no cooldown fields yet
      Doc({"_id", "money", "career"},
          [money |-> 60, career |-> "maid",
           last_work_time |-> 0, last_career_roll_time |-> 0]) }

Card(rank, suit) == <<rank, suit>>

\* the cards the shuffles of Spec put on top of the deck, in the order they are popped:
\* player, dealer, player, dealer, then the hits and the dealer's draws
Tops ==
    { <<Card("10", "S"), Card("9", "H"), Card("A", "S"), Card("8", "H")>>,
      <<Card("A", "S"), Card("A", "H"), Card("K", "S"), Card("K", "H")>>,
      <<Card("6", "S"), Card("10", "H"), Card("6", "H"), Card("6", "D"),
        Card("9", "S"), Card("5", "C")>>,
      <<Card("K", "S"), Card("9", "H"), Card("5", "S"), Card("8", "H"), Card("K", "H")>>,
      <<Card("K", "S"), Card("9", "H"), Card("Q", "S"), Card("8", "H")>>,
      <<Card("A", "S"), Card("5", "H"), Card("3", "S"), Card("A", "H"),
        Card("2", "D"), Card("9", "C")>> }

Shuffles == {ShuffledDeck(top) : top \in Tops}

\* the cards whose order on top of the deck the shuffles of GameSpec draw freely
WindowCards ==
    { Card("A", "S"), Card("A", "H"), Card("K", "S"), Card("Q", "H"),
      Card("6", "S"), Card("5", "H"), Card("9", "D") }

RECURSIVE Arrangements(_, _)
Arrangements(cards, n) ==
    IF n = 0 THEN {<<>>}
    ELSE UNION {{<<c>> \o rest : rest \in Arrangements(cards \ {c}, n - 1)} : c \in cards}

GameShuffles == {ShuffledDeck(top) : top \in Arrangements(WindowCards, TopLen)}

(***************************************************************************)
(* Spec: every command, concurrently.                                      *)
(***************************************************************************)
Init ==
    /\ now = StartTime
    /\ store \in [Users -> InitDocs]
    /\ task = [t \in Tasks |-> IdleTask]
    /\ hist = [t \in Tasks |-> NoHist]

\* task ids are interchangeable: they are taken in order
NextFree(t) == \A s \in Tasks : s < t => task[s].pc # "idle"

Invoke ==
    \E t \in Tasks, cmd \in Commands, u \in Users :
        /\ NextFree(t)
        /\ \E bet \in (IF cmd = "blackjack" THEN Bets ELSE {0}) : Call(t, cmd, u, bet)

Next ==
    \/ Invoke
    \/ \E t \in Tasks : Insert(t)
    \/ \E t \in Tasks : Backfill(t)
    \/ \E t \in Tasks, elapsed \in Elapses, u1000 \in UniformSamples :
          WorkAct(t, elapsed, u1000)
    \/ \E t \in Tasks, elapsed \in Elapses, promoted \in BOOLEAN :
          RollAct(t, elapsed, promoted)
    \/ \E t \in Tasks : BJCreate(t)
    \/ \E t \in Tasks, shuffled \in Shuffles : BJDeal(t, shuffled)
    \/ \E u \in Users, content \in {"/hit", "/hold"} : Post(u, content)
    \/ \E t \in Tasks : Timeout(t)
    \/ \E t \in Tasks : DealerDraw(t)
    \/ \E t \in Tasks : Settle(t)

Spec == Init /\ [][Next]_vars

(***************************************************************************)
(* GameSpec: one blackjack session of a user who can afford it, over every *)
(* order of the top TopLen cards drawn from WindowCards.                   *)
(***************************************************************************)
GameBets == {5, 50}

GameInit ==
    /\ now = StartTime
    /\ store = [u \in Users |->
                  FullDoc([money |-> 120, career |-> "architect",
                           last_work_time |-> LongAgo, last_career_roll_time |-> LongAgo])]
    /\ task = [t \in Tasks |-> IdleTask]
    /\ hist = [t \in Tasks |-> NoHist]

GameNext ==
    \/ \E bet \in GameBets : Call(1, "blackjack", 1, bet)
    \/ BJCreate(1)
    \/ \E shuffled \in GameShuffles : BJDeal(1, shuffled)
    \/ \E content \in {"/hit", "/hold"} : Post(1, content)
    \/ \E content \in {"/hit", "/hold"} : LatePost(1, content)
    \/ Timeout(1)
    \/ DealerDraw(1)
    \/ Settle(1)

GameSpec == GameInit /\ [][GameNext]_vars

\* the event loop resumes a coroutine whose await (followup.send, sleep) has
\* completed: the dealer's loop and the settlement after it are not starved
FairDealerSpec ==
    /\ GameSpec
    /\ WF_vars(DealerDraw(1))
    /\ WF_vars(Settle(1))

(***************************************************************************)
(* FairSessionSpec: one session from the command to its end, over every    *)
(* order of the top cards drawn from SessionCards, with the coroutine's    *)
(* own steps not starved.                                                  *)
(***************************************************************************)
SessionCards ==
    { Card("A", "S"), Card("K", "S"), Card("Q", "H"),
      Card("6", "S"), Card("5", "H"), Card("9", "D") }

SessionShuffles == {ShuffledDeck(top) : top \in Arrangements(SessionCards, TopLen)}

SessionNext ==
    \/ \E bet \in GameBets : Call(1, "blackjack", 1, bet)
    \/ BJCreate(1)
    \/ \E shuffled \in SessionShuffles : BJDeal(1, shuffled)
    \/ \E content \in {"/hit", "/hold"} : Post(1, content)
    \/ \E content \in {"/hit", "/hold"} : LatePost(1, content)
    \/ Timeout(1)
    \/ DealerDraw(1)
    \/ Settle(1)

\* a step of the session's coroutine that needs no message from the player
SessionStep(t) ==
    \/ task[t].pc = "deal" /\ \E shuffled \in SessionShuffles : BJDeal(t, shuffled)
    \/ task[t].pc = "await" /\ Timeout(t)
    \/ task[t].pc = "dealer" /\ (DealerDraw(t) \/ Settle(t))

\* the event loop resumes the coroutine when update_user_data or a send has
\* completed, and wait_for(timeout=30.0) raises TimeoutError when no message came
FairSessionSpec == GameInit /\ [][SessionNext]_vars /\ WF_vars(SessionStep(1))

(***************************************************************************)
(* FaultSpec: one session, with the failures the code does not catch: the  *)
(* ledger update of the settlement raising, and an exception or a          *)
(* cancellation at any await after the debit.                              *)
(***************************************************************************)
\* line 468: update_user_data raises (ConnectionFailure of line 130, or an error
\* of update_one); user_data["money"] was credited in memory only
UpdateFails(t) ==
    /\ task[t].pc = "dealer"
    /\ ~DealerMustDraw(task[t].dealer_value)
    /\ LET credit == Payout(task[t].player_value, task[t].dealer_value, task[t].bet) IN
       task' = [task EXCEPT ![t].pc = "failed", ![t].user_data.money = @ + credit]
    /\ hist' = [hist EXCEPT ![t].result = "LedgerUnavailable"]
    /\ UNCHANGED <<now, store>>

\* an await between the debit and the end of blackjack_slash raises (a send that
\* fails) or the task is cancelled: nothing catches it, the coroutine is over
Abort(t) ==
    /\ SessionOpen(t)
    /\ task' = [task EXCEPT ![t].pc = "failed"]
    /\ hist' = [hist EXCEPT ![t].result = "Aborted"]
    /\ UNCHANGED <<now, store>>

FaultNext ==
    \/ GameNext
    \/ UpdateFails(1)
    \/ Abort(1)

FaultSpec == GameInit /\ [][FaultNext]_vars

(***************************************************************************)
(* HandSpec: calculate_hand_value applied to every hand of at most         *)
(* MaxHandLen cards drawn from HandCards.                                  *)
(***************************************************************************)
HandCards ==
    { Card("A", "S"), Card("A", "H"), Card("A", "D"), Card("A", "C"),
      Card("K", "S"), Card("Q", "H"), Card("9", "D"), Card("5", "H"), Card("2", "C") }

Hands == UNION {Arrangements(HandCards, n) : n \in 0..MaxHandLen}

HandInit ==
    /\ now = StartTime
    /\ store = [u \in Users |-> NoDoc]
    /\ \E hand \in Hands :
          task = [t \in Tasks |->
                    IF t = 1 THEN [IdleTask EXCEPT !.pc = "hand", !.player_hand = hand]
                    ELSE IdleTask]
    /\ hist = [t \in Tasks |-> NoHist]

\* player_value = calculate_hand_value(player_hand)
ValueHand(t) ==
    /\ task[t].pc = "hand"
    /\ task' = [task EXCEPT ![t].pc = "valued",
                            ![t].player_value = calculate_hand_value(task[t].player_hand)]
    /\ UNCHANGED <<now, store, hist>>

HandNext == ValueHand(1)

HandSpec == HandInit /\ [][HandNext]_vars

(***************************************************************************)
(* Properties.                                                             *)
(***************************************************************************)
SettledResults ==
    {"Bust", "TimedOut", "DealerWin", "Push", "NaturalPush", "PlayerWin",
     "DealerBust", "NaturalBlackjack"}

\* the session of task t has debited its bet
Debited(t) ==
    /\ task[t].cmd = "blackjack"
    /\ \/ task[t].pc \in {"deal", "await", "dealer"}
       \/ hist[t].result \in SettledResults

\* the session of task t has settled
Settled(t) == task[t].cmd = "blackjack" /\ hist[t].result \in SettledResults

\* the net results a session may have
NetChanges(b) == {-b, 0, b, (3 * b) \div 2}

\* the net result that belongs to each outcome
NetOf(result, b) ==
    CASE result \in {"Bust", "TimedOut", "DealerWin"} -> -b
      [] result \in {"Push", "NaturalPush"} -> 0
      [] result \in {"PlayerWin", "DealerBust"} -> b
      [] result = "NaturalBlackjack" -> (3 * b) \div 2

\* C1 as stated: Create lowers the stored money by exactly the bet, and the stored
\* money after settlement minus the stored money before Create is -b, 0, +b or
\* +floor(1.5*b), for every session.
C1_Original ==
    \A t \in Tasks :
        Debited(t) =>
            /\ hist[t].post = hist[t].pre - task[t].bet
            /\ Settled(t) => hist[t].settled - hist[t].pre \in NetChanges(task[t].bet)

\* C1, amended: the same, for every session during which no other operation wrote
\* the user's document; each outcome then has its own net change.
C1_NetChange ==
    \A t \in Tasks :
        (Debited(t) /\ hist[t].others = 0) =>
            /\ 0 < task[t].bet /\ task[t].bet <= hist[t].pre
            /\ hist[t].post = hist[t].pre - task[t].bet
            /\ ~Settled(t) => store[task[t].user].money = hist[t].pre - task[t].bet
            /\ Settled(t) =>
                 /\ hist[t].settled - hist[t].pre \in NetChanges(task[t].bet)
                 /\ hist[t].settled - hist[t].pre = NetOf(hist[t].result, task[t].bet)

\* a session won against the dealer, undisturbed: the net change is +bet
C1_Witness ==
    \E t \in Tasks :
        /\ Settled(t) /\ hist[t].others = 0
        /\ hist[t].result = "PlayerWin"
        /\ hist[t].settled - hist[t].pre = task[t].bet

\* C2: a work that succeeds while the user's session is open is not lost: the
\* stored money after settlement is the money before Create plus the earnings
\* plus the session's net result.
C2_NoLostUpdate ==
    \A t \in Tasks :
        (Settled(t) /\ hist[t].worked > 0 /\ hist[t].others = 1) =>
            hist[t].settled =
                hist[t].pre + hist[t].worked + NetOf(hist[t].result, task[t].bet)

\* C3: a Create that comes while the user has a session that has not settled is
\* rejected and debits nothing (which is what keeps a user to one open session).
C3_SecondCreateRejected ==
    \A t \in Tasks :
        (task[t].cmd = "blackjack" /\ hist[t].openAtCall # {}) => ~Debited(t)

\* C4: every stored document holds money >= 0.
C4_MoneyNonNegative ==
    \A u \in Users : "money" \in store[u].present => store[u].money >= 0

\* two sessions of one user have both debited a bet the balance covered only once
C4_Witness ==
    \E t1, t2 \in Tasks :
        /\ t1 # t2 /\ task[t1].user = task[t2].user
        /\ SessionOpen(t1) /\ SessionOpen(t2)
        /\ task[t1].bet + task[t2].bet > hist[t1].pre
        /\ store[task[t1].user].money >= 0

\* C5: a Create with bet <= 0 is refused as an invalid bet and one with
\* bet > money as insufficient funds; the refusal starts no session, deals no card
\* and leaves the collection as it was, and the invocation ends there.
C5_RejectedCreate ==
    /\ [][\A t \in Tasks :
            ( /\ task[t].cmd = "blackjack"
              /\ task[t].pc = "loaded" /\ task'[t].pc # "loaded"
              /\ (task[t].bet <= 0 \/ task[t].bet > task[t].user_data.money) )
            => /\ hist'[t].result = IF task[t].bet <= 0 THEN "InvalidBet"
                                    ELSE "InsufficientFunds"
               /\ task'[t].pc = "done"
               /\ store' = store
               /\ task'[t].user_data = task[t].user_data]_vars
    /\ [](\A t \in Tasks :
            hist[t].result \in {"InvalidBet", "InsufficientFunds"} =>
                /\ task[t].pc = "done" /\ ~SessionOpen(t) /\ ~hist[t].awaited
                /\ task[t].deck = <<>>
                /\ task[t].player_hand = <<>> /\ task[t].dealer_hand = <<>>)

\* a bet above a positive balance was refused and the balance is still there
C5_Witness ==
    \E t \in Tasks :
        /\ hist[t].result = "InsufficientFunds"
        /\ task[t].user_data.money > 0 /\ task[t].bet > task[t].user_data.money
        /\ store[task[t].user].money = task[t].user_data.money
        /\ task[t].player_hand = <<>>

\* C6: a work whose current_time is less than WORK_COOLDOWN after the lastWorkTime
\* it loaded reports OnCooldown with remaining = WORK_COOLDOWN - (now - lastWorkTime)
\* and writes nothing: money and lastWorkTime stay as they were.
C6_WorkCooldown ==
    [][\A t \in Tasks :
          ( /\ task[t].cmd = "work"
            /\ task[t].pc = "loaded" /\ task'[t].pc # "loaded"
            /\ now' - task[t].user_data.last_work_time < WORK_COOLDOWN )
          => /\ hist'[t].result = "OnCooldown"
             /\ hist'[t].remaining =
                    WORK_COOLDOWN - (now' - task[t].user_data.last_work_time)
             /\ task'[t].pc = "done"
             /\ store' = store
             /\ task'[t].user_data = task[t].user_data]_vars

\* a second work came after a successful one, less than WORK_COOLDOWN later, and
\* was refused with the remaining time; the stored record is that of the first
C6_Witness ==
    \E t1, t2 \in Tasks :
        /\ task[t1].cmd = "work" /\ task[t2].cmd = "work"
        /\ task[t1].user = task[t2].user
        /\ hist[t1].result = "Worked" /\ hist[t2].result = "OnCooldown"
        /\ hist[t2].at > hist[t1].at
        /\ hist[t2].at - hist[t1].at < WORK_COOLDOWN
        /\ hist[t2].remaining = WORK_COOLDOWN - (hist[t2].at - hist[t1].at)
        /\ store[task[t1].user].last_work_time = hist[t1].at
        /\ store[task[t1].user].money = task[t1].user_data.money

\* C7: a roll of a user whose loaded career is the terminal tier reports
\* AlreadyMaxed, whatever the time since the last roll, and writes nothing.
C7_TerminalRoll ==
    [][\A t \in Tasks :
          ( /\ task[t].cmd = "roll"
            /\ task[t].pc = "loaded" /\ task'[t].pc # "loaded"
            /\ task[t].user_data.career = "doctor" )
          => /\ hist'[t].result = "AlreadyMaxed"
             /\ task'[t].pc = "done"
             /\ store' = store
             /\ task'[t].user_data = task[t].user_data]_vars

\* two rolls of a doctor were both answered AlreadyMaxed, one inside the roll
\* cooldown and one after it, and last_career_roll_time is what it was
C7_Witness ==
    \E t1, t2 \in Tasks :
        /\ hist[t1].result = "AlreadyMaxed" /\ hist[t2].result = "AlreadyMaxed"
        /\ task[t1].user = task[t2].user
        /\ hist[t1].at - task[t1].user_data.last_career_roll_time < ROLL_COOLDOWN
        /\ hist[t2].at - task[t2].user_data.last_career_roll_time >= ROLL_COOLDOWN
        /\ store[task[t1].user].last_career_roll_time = JustNow

TenRanks == {"10", "J", "Q", "K"}

\* an ace and a ten-valued card
Natural(hand) ==
    /\ Len(hand) >= 2
    /\ \/ hand[1][1] = "A" /\ hand[2][1] \in TenRanks
       \/ hand[2][1] = "A" /\ hand[1][1] \in TenRanks

\* C8: a session whose first two player cards make 21 is settled at once: it was
\* never in AwaitingPlayerAction, took no input, and nobody drew a card; the bet
\* is refunded (net 0) when the dealer's two cards make 21 too, and otherwise
\* bet + floor(1.5*bet) is credited (net +floor(1.5*bet): 75 for a bet of 50).
C8_NaturalBlackjack ==
    \A t \in Tasks :
        Natural(task[t].player_hand) =>
            /\ task[t].pc = "done"
            /\ ~hist[t].awaited /\ hist[t].inputs = 0
            /\ Len(task[t].player_hand) = 2 /\ Len(task[t].dealer_hand) = 2
            /\ Len(task[t].deck) = Len(create_deck) - 4
            /\ IF Natural(task[t].dealer_hand)
               THEN /\ hist[t].result = "NaturalPush"
                    /\ hist[t].credited = task[t].bet
                    /\ hist[t].settled = hist[t].pre
                    /\ store[task[t].user].money = hist[t].pre
               ELSE /\ hist[t].result = "NaturalBlackjack"
                    /\ hist[t].credited = task[t].bet + (3 * task[t].bet) \div 2
                    /\ hist[t].settled = hist[t].pre + (3 * task[t].bet) \div 2
                    /\ store[task[t].user].money = hist[t].settled
                    /\ task[t].bet = 50 => hist[t].settled - hist[t].pre = 75
                    /\ task[t].bet = 5 => hist[t].settled - hist[t].pre = 7

\* a natural against a dealer without one was paid 7 on an odd bet of 5
C8_Witness ==
    \E t \in Tasks :
        /\ Natural(task[t].player_hand) /\ ~Natural(task[t].dealer_hand)
        /\ task[t].bet = 5
        /\ hist[t].result = "NaturalBlackjack"
        /\ store[task[t].user].money = hist[t].pre + 7

\* C9: a session that leaves AwaitingPlayerAction without having received a
\* message is settled as TimedOut: the dealer's hand is untouched and was never
\* valued, nothing is credited or written, and the stored money is the money
\* before Create less the bet (when nobody else wrote the document).
C9_Timeout ==
    [][\A t \in Tasks :
          ( /\ task[t].pc = "await" /\ task'[t].pc # "await"
            /\ hist'[t].inputs = hist[t].inputs )
          => /\ hist'[t].result = "TimedOut"
             /\ task'[t].pc = "done"
             /\ task'[t].dealer_hand = task[t].dealer_hand
             /\ Len(task'[t].dealer_hand) = 2
             /\ task'[t].dealer_value = 0
             /\ task'[t].deck = task[t].deck
             /\ hist'[t].credited = 0
             /\ store' = store
             /\ hist[t].others = 0 =>
                    store'[task[t].user].money = hist[t].pre - task[t].bet]_vars

\* a session timed out after a hit; the user's money is the debited balance
C9_Witness ==
    \E t \in Tasks :
        /\ hist[t].result = "TimedOut"
        /\ hist[t].inputs = 1 /\ Len(task[t].player_hand) = 3
        /\ Len(task[t].dealer_hand) = 2
        /\ store[task[t].user].money = hist[t].pre - task[t].bet

DealerSettled == {"DealerBust", "PlayerWin", "DealerWin", "Push"}

\* C10: when the comparison has run the dealer's value is at least 17 and every
\* card the dealer drew was drawn on a value below 17; and the dealer's turn ends.
C10_DealerPlay ==
    /\ [](\A t \in Tasks :
            hist[t].result \in DealerSettled =>
                /\ task[t].dealer_value >= 17
                /\ task[t].dealer_value = calculate_hand_value(task[t].dealer_hand)
                /\ \A k \in 2..(Len(task[t].dealer_hand) - 1) :
                       calculate_hand_value(SubSeq(task[t].dealer_hand, 1, k)) < 17)
    /\ [][\A t \in Tasks :
            (Len(task[t].dealer_hand) >= 2
                /\ Len(task'[t].dealer_hand) > Len(task[t].dealer_hand))
            => /\ task[t].pc = "dealer"
               /\ calculate_hand_value(task[t].dealer_hand) < 17
               /\ Len(task'[t].dealer_hand) = Len(task[t].dealer_hand) + 1]_vars
    /\ \A t \in Tasks : (task[t].pc = "dealer") ~> (task[t].pc = "done")

\* the dealer drew twice and went over 21
C10_Witness ==
    \E t \in Tasks :
        /\ hist[t].result = "DealerBust"
        /\ Len(task[t].dealer_hand) >= 4
        /\ task[t].dealer_value > 21

\* the 52 rank-suit pairs
FullSet == {<<RANKS[i], SUITS[j]>> : i \in 1..Len(RANKS), j \in 1..Len(SUITS)}

\* every deck a shuffle can hand to a session is an arrangement of the 52 pairs
FreshDecksFull ==
    \A d \in {create_deck} \cup Shuffles \cup GameShuffles :
        Len(d) = 52 /\ Range(d) = FullSet /\ Cardinality(FullSet) = 52

\* C11: a freshly shuffled deck holds exactly the 52 distinct rank-suit pairs, and
\* once a session has dealt, with k cards in the two hands, the deck holds 52 - k
\* cards, the player's hand, the dealer's hand and the deck are pairwise disjoint
\* and without repeats, and together they are the 52 pairs.
C11_DeckIntegrity ==
    /\ FreshDecksFull
    /\ \A t \in Tasks :
          task[t].deck # <<>> =>
            LET player == Range(task[t].player_hand)
                dealer == Range(task[t].dealer_hand)
                rest == Range(task[t].deck)
                k == Len(task[t].player_hand) + Len(task[t].dealer_hand)
            IN  /\ k >= 4
                /\ Len(task[t].deck) = 52 - k
                /\ Cardinality(player) = Len(task[t].player_hand)
                /\ Cardinality(dealer) = Len(task[t].dealer_hand)
                /\ Cardinality(rest) = Len(task[t].deck)
                /\ player \cap dealer = {} /\ player \cap rest = {} /\ dealer \cap rest = {}
                /\ player \cup dealer \cup rest = FullSet

\* the player hit, the dealer drew, and 46 cards are left
C11_Witness ==
    \E t \in Tasks :
        /\ Len(task[t].player_hand) = 3 /\ Len(task[t].dealer_hand) = 3
        /\ Len(task[t].deck) = 46
        /\ task[t].pc = "done"

\* C12: a session that has settled is terminal: from then on its hands, its deck
\* and its outcome never change and it never writes the collection again; a
\* "/hit" or "/hold" that comes later is taken by no session, deals no card and
\* changes neither the hands nor the stored money.
C12_SettledIsTerminal ==
    /\ [][\A t \in Tasks :
            Settled(t) =>
                /\ task'[t] = task[t]
                /\ hist'[t].result = hist[t].result
                /\ hist'[t].inputs = hist[t].inputs
                /\ hist'[t].settled = hist[t].settled
                /\ store'[task[t].user] = store[task[t].user]]_vars
    /\ [](\A t \in Tasks :
            hist[t].late =>
                /\ Settled(t) /\ task[t].pc = "done"
                /\ Len(task[t].player_hand) + Len(task[t].dealer_hand) + Len(task[t].deck) = 52
                /\ store[task[t].user].money = hist[t].settled)

\* a "/hit" came after the player had won against the dealer
C12_Witness ==
    \E t \in Tasks :
        /\ hist[t].late /\ hist[t].result = "PlayerWin"
        /\ store[task[t].user].money = hist[t].pre + task[t].bet

\* C13: every session that was created (its bet debited) eventually is settled,
\* whatever messages the player sends or fails to send.
C13_EventuallySettled ==
    \A t \in Tasks : SessionOpen(t) ~> Settled(t)

\* a session was settled by the dealer's play after two hits and a hold
C13_Witness ==
    \E t \in Tasks :
        /\ Settled(t) /\ ~SessionOpen(t)
        /\ hist[t].inputs = 3 /\ Len(task[t].player_hand) = 4
        /\ hist[t].result \in DealerSettled

\* the nominal value of a card, by the place of its rank in 2..10, J, Q, K, A
Nominal(card) ==
    LET i == CHOOSE j \in 1..Len(RANKS) : RANKS[j] = card[1]
    IN  IF i <= 9 THEN i + 1 ELSE IF i <= 12 THEN 10 ELSE 11

RECURSIVE NominalSum(_)
NominalSum(hand) ==
    IF hand = <<>> THEN 0 ELSE Nominal(Head(hand)) + NominalSum(Tail(hand))

AcesIn(hand) == Cardinality({i \in 1..Len(hand) : hand[i][1] = "A"})

\* the smallest number of aces whose demotion brings the total to 21 or less,
\* or every ace when that is not enough
Demotions(hand) ==
    LET enough == {k \in 0..AcesIn(hand) : NominalSum(hand) - 10 * k <= 21}
    IN  IF enough # {} THEN CHOOSE k \in enough : \A j \in enough : k <= j
        ELSE AcesIn(hand)

\* the largest total of 21 or less with each ace counted 1 or 11, if there is one,
\* else the total with every ace counted 1
BestTotal(hand) ==
    LET totals == {NominalSum(hand) - 10 * k : k \in 0..AcesIn(hand)}
        fits == {x \in totals : x <= 21}
    IN  IF fits # {} THEN CHOOSE x \in fits : \A y \in fits : y <= x
        ELSE NominalSum(hand) - 10 * AcesIn(hand)

RanksOf(hand) == [i \in 1..Len(hand) |-> hand[i][1]]

\* every card of the deck has its nominal value: 2..10 their number, J, Q, K 10, A 11
CardValuesNominal ==
    \A i \in 1..Len(create_deck) : get_card_value(create_deck[i]) = Nominal(create_deck[i])

\* C14: the value of a hand is its nominal sum less 10 for each of the fewest
\* aces that bring it to 21 or less (for every ace when that is not enough), which
\* is the best total of 21 or less with aces counted 1 or 11 when there is one and
\* else the total with every ace counted 1; {A,A,9} and {A,K,Q} give 21, {K,Q,5} 25.
C14_HandValue ==
    CardValuesNominal /\ \A t \in Tasks :
        task[t].pc = "valued" =>
            LET hand == task[t].player_hand
                value == task[t].player_value
            IN  /\ value = NominalSum(hand) - 10 * Demotions(hand)
                /\ value = BestTotal(hand)
                /\ RanksOf(hand) = <<"A", "A", "9">> => value = 21
                /\ RanksOf(hand) = <<"A", "K", "Q">> => value = 21
                /\ RanksOf(hand) = <<"K", "Q", "5">> => value = 25

\* {A,A,9} was valued 21: one ace demoted, one kept at 11
C14_Witness ==
    \E t \in Tasks :
        /\ task[t].pc = "valued"
        /\ RanksOf(task[t].player_hand) = <<"A", "A", "9">>
        /\ task[t].player_value = 21

\* C15: the get of a user without a record never fails: every command that found
\* no record goes on with the default record, also when two commands make the
\* first access of one user at the same time.
C15_GetNeverFails ==
    \A t \in Tasks :
        /\ hist[t].result # "DuplicateKeyError"
        /\ task[t].pc = "insert" => task[t].user_data = DefaultData

\* C16: when a ledger update fails or the session's task is aborted after the
\* debit of Create was stored, the run does not end with the money still debited
\* by the bet and no session left to settle it.
C16_AllOrNothing ==
    \A t \in Tasks :
        (task[t].cmd = "blackjack" /\ task[t].pc = "failed"
            /\ hist[t].result \in {"LedgerUnavailable", "Aborted"})
        => store[task[t].user].money # hist[t].pre - task[t].bet

\* C17: the settlement that follows the dealer's turn credits 2*bet when the
\* dealer's value is over 21, else 2*bet when it is below the player's, 0 when it
\* is above and bet when the two are equal; the credited balance is stored; the
\* player's value is at most 21 there, and a player who bust is paid nothing.
C17_Settlement ==
    /\ [][\A t \in Tasks :
            (task[t].pc = "dealer" /\ task'[t].pc = "done") =>
                LET pv == calculate_hand_value(task[t].player_hand)
                    dv == calculate_hand_value(task[t].dealer_hand)
                    b == task[t].bet
                    u == task[t].user
                IN  /\ pv <= 21 /\ task[t].player_value = pv /\ task[t].dealer_value = dv
                    /\ hist'[t].credited =
                          (IF dv > 21 \/ dv < pv THEN 2 * b ELSE IF dv > pv THEN 0 ELSE b)
                    /\ hist'[t].result =
                          (IF dv > 21 THEN "DealerBust" ELSE IF dv < pv THEN "PlayerWin"
                           ELSE IF dv > pv THEN "DealerWin" ELSE "Push")
                    /\ store'[u].money = store[u].money + hist'[t].credited
                    /\ store'[u].money = task'[t].user_data.money]_vars
    /\ [](\A t \in Tasks :
            hist[t].result = "Bust" =>
                /\ calculate_hand_value(task[t].player_hand) > 21
                /\ hist[t].credited = 0
                /\ store[task[t].user].money = hist[t].pre - task[t].bet)

\* the dealer's turn ended level with the player and the stake came back
C17_Witness ==
    \E t \in Tasks :
        /\ hist[t].result = "Push" /\ hist[t].credited = task[t].bet
        /\ task[t].dealer_value = task[t].player_value
        /\ store[task[t].user].money = hist[t].pre

\* C18: a "/hit" taken in AwaitingPlayerAction deals exactly one card, the top of
\* the deck, to the player; over 21 the session is settled as Bust, nothing is
\* refunded and the dealer does not play; at exactly 21 it is the dealer's turn
\* without further input; below 21 the session goes on waiting.  A "/hold" makes
\* it the dealer's turn and deals nothing.
C18_HitAndHold ==
    [][\A t \in Tasks :
          task[t].pc = "await" =>
            /\ Post(task[t].user, "/hit") =>
                  LET value == calculate_hand_value(task'[t].player_hand) IN
                  /\ task'[t].player_hand =
                        Append(task[t].player_hand, task[t].deck[Len(task[t].deck)])
                  /\ Len(task'[t].deck) = Len(task[t].deck) - 1
                  /\ task'[t].dealer_hand = task[t].dealer_hand
                  /\ store' = store
                  /\ value > 21 => /\ task'[t].pc = "done"
                                   /\ hist'[t].result = "Bust"
                                   /\ hist'[t].credited = 0
                                   /\ task'[t].dealer_value = 0
                  /\ value = 21 => task'[t].pc = "dealer"
                  /\ value < 21 => task'[t].pc = "await"
            /\ Post(task[t].user, "/hold") =>
                  /\ task'[t].pc = "dealer"
                  /\ task'[t].player_hand = task[t].player_hand
                  /\ task'[t].dealer_hand = task[t].dealer_hand
                  /\ task'[t].deck = task[t].deck
                  /\ store' = store]_vars

\* a hit made exactly 21 and it is the dealer's turn after that single message
C18_Witness ==
    \E t \in Tasks :
        /\ task[t].pc = "dealer"
        /\ hist[t].inputs = 1 /\ Len(task[t].player_hand) = 3
        /\ task[t].player_value = 21

\* C19: a roll that passes the terminal and cooldown tests at time now stores
\* last_career_roll_time = now whether it promotes or not; a promotion stores the
\* tier exactly one index above the career the roll loaded (the stored one, when
\* nobody wrote the record meanwhile), never past the last tier; a failed roll
\* leaves the career it loaded; and the stored money and last_work_time are as
\* they were before the roll's update.
C19_RollStores ==
    [][\A t \in Tasks :
          ( /\ task[t].cmd = "roll"
            /\ task[t].pc = "loaded" /\ task'[t].pc # "loaded"
            /\ task[t].user_data.career # CAREER_ORDER[Len(CAREER_ORDER)]
            /\ now' - task[t].user_data.last_career_roll_time >= ROLL_COOLDOWN )
          => LET u == task[t].user
                 loaded == CareerIndex(task[t].user_data.career)
                 before == CareerIndex(store[u].career)
                 after == CareerIndex(store'[u].career)
             IN  /\ hist'[t].result \in {"Promoted", "Failed"}
                 /\ hist'[t].at = now'
                 /\ store'[u].last_career_roll_time = now'
                 /\ "last_career_roll_time" \in store'[u].present
                 /\ hist'[t].result = "Promoted" =>
                        /\ after = loaded + 1 /\ after <= Len(CAREER_ORDER)
                        /\ hist[t].others = 0 => after = before + 1
                 /\ hist'[t].result = "Failed" =>
                        /\ after = loaded
                        /\ hist[t].others = 0 => after = before
                 /\ store'[u].money = store[u].money
                 /\ store'[u].last_work_time = store[u].last_work_time
                 /\ (store'[u].present \cap {"money", "last_work_time"})
                       = (store[u].present \cap {"money", "last_work_time"})]_vars

\* a roll failed and, a cooldown later, the next roll of the same user promoted
\* the homeless to maid; money and last_work_time are those of the first record
C19_Witness ==
    \E t1, t2 \in Tasks :
        /\ t1 # t2 /\ task[t1].user = task[t2].user
        /\ hist[t1].result = "Failed" /\ hist[t2].result = "Promoted"
        /\ hist[t2].at >= hist[t1].at + ROLL_COOLDOWN
        /\ hist[t2].others = 0
        /\ store[task[t1].user].career = "maid"
        /\ store[task[t1].user].last_career_roll_time = hist[t2].at
        /\ store[task[t1].user].money = 25
        /\ store[task[t1].user].last_work_time = JustNow

\* C20: a failed roll stores only the timestamp, so the stored career never goes
\* down: once a roll has stored a promotion, the stored tier stays at or above it,
\* also when another roll of the user that loaded the record earlier fails later.
C20_CareerNeverReverts ==
    \A t1, t2 \in Tasks :
        ( /\ t1 # t2 /\ task[t1].user = task[t2].user
          /\ task[t1].cmd = "roll" /\ task[t2].cmd = "roll"
          /\ hist[t1].result = "Promoted" /\ hist[t2].result = "Failed" )
        => CareerIndex(store[task[t1].user].career)
              >= CareerIndex(task[t1].user_data.career)

\* C21: two works of one user that both report Worked have work times at least
\* WORK_COOLDOWN apart, also when the second loaded the record before the first
\* stored its update, and the stored money holds the earnings of both.
C21_ConcurrentWork ==
    \A t1, t2 \in Tasks :
        ( /\ t1 # t2 /\ task[t1].user = task[t2].user
          /\ task[t1].cmd = "work" /\ task[t2].cmd = "work"
          /\ hist[t1].result = "Worked" /\ hist[t2].result = "Worked"
          /\ hist[t1].at <= hist[t2].at )
        => /\ hist[t2].at - hist[t1].at >= WORK_COOLDOWN
           /\ store[task[t1].user].money =
                 (IF hist[t1].pre <= hist[t2].pre THEN hist[t1].pre ELSE hist[t2].pre)
                 + hist[t1].earned + hist[t2].earned

\* C22: the backfill of a get changes no field that was stored already: a work
\* that has stored its money and last_work_time finds them in the store still,
\* also when a get of another command that read the record before the work's
\* update writes its backfill after it.
C22_BackfillKeepsUpdates ==
    \A t1, t2 \in Tasks :
        ( /\ t1 # t2 /\ task[t1].user = task[t2].user
          /\ hist[t1].backfilled /\ task[t1].cmd = "view"
          /\ task[t2].cmd = "work" /\ hist[t2].result = "Worked" )
        => /\ store[task[t2].user].last_work_time = hist[t2].at
           /\ store[task[t2].user].money = task[t2].user_data.money

====
